---- MODULE Spec2Model ----
(***************************************************************************)
(* State-machine model of app.py (LDA-Shakira): the text key normaliser    *)
(* normalizar, the encoding cascade of leer_csv_seguro, the schema check   *)
(* and type coercion of load_data, and the "Por Cancion" and "Por Topico"  *)
(* script branches that query the loaded frames.                           *)
(*                                                                         *)
(* Data representation                                                     *)
(*   - a text value is a record [kind, chars]: kind "str" with the         *)
(*     sequence of its characters, or the non-string values NaN / None;    *)
(*   - a cell is a record [kind, val, whole]: a number, NaN / <NA>, or a   *)
(*     non-numeric string;                                                 *)
(*   - a data frame is a record [columns, rows]; rows is a sequence of     *)
(*     functions from column name to cell, each row also carrying its      *)
(*     pandas index label under "idx".                                     *)
(***************************************************************************)
EXTENDS Integers, Sequences, FiniteSets, TLC

VARIABLES
    pc,                 \* position of the running script / function
    err,                \* exception propagating out of it (NoError if none)
    ran,                \* the steps executed so far (of load_data, then of the
                        \* current run of the script body), in order
    arg,                \* normalizar: the value it is applied to
    results,            \* normalizar: results of the successive applications
    outcome,            \* per csv file and encoding: what pd.read_csv does
    path,               \* leer_csv_seguro: index of the csv file being read
    tried,              \* per csv file: the encodings attempted, in order
    raw,                \* the three frames as read, before load_data's checks
    topic_words,        \* load_data's four return values ...
    topicos_canciones,
    canciones,
    topic_name_map,
    sel,                \* the sidebar widgets' values of the current run
    fila,               \* Por Cancion: the resolved assignment row
    palabras,           \* keyword table (both modes)
    topic_values,       \* Por Cancion: dict display name -> probability
    canciones_top,      \* Por Topico: songs dominated by the topic
    df_topic_year       \* Por Topico: yearly mean of Topic_k

vars == << pc, err, ran, arg, results, outcome, path, tried, raw, topic_words,
           topicos_canciones, canciones, topic_name_map, sel, fila, palabras,
           topic_values, canciones_top, df_topic_year >>

readVars  == << outcome, path, tried >>
normVars  == << arg, results >>
loadVars  == << raw, topic_words, topicos_canciones, canciones, topic_name_map >>
viewVars  == << sel, fila, palabras, topic_values, canciones_top, df_topic_year >>

----------------------------------------------------------------------------
(* Generic helpers *)

\* Cell values: the integer v, the non-integer number v + 1/2, a missing value
\* (NaN, <NA>), a string that is not a numeral.
Num(v) == [kind |-> "num", val |-> v, whole |-> TRUE]

Half(v) == [kind |-> "num", val |-> v, whole |-> FALSE]

NaN == [kind |-> "nan", val |-> 0, whole |-> TRUE]

Txt == [kind |-> "text", val |-> 0, whole |-> TRUE]

\* an exception: its type, the step that raised it, the column names in its message
Error(type, at, names) == [type |-> type, at |-> at, names |-> names]

NoError == Error("none", "none", {})

RECURSIVE KSubsets(_, _)
\* the subsets of S with at most k elements
KSubsets(S, k) ==
    IF k = 0 THEN { {} }
    ELSE LET Smaller == KSubsets(S, k - 1)
         IN  Smaller \cup { T \cup {x} : T \in Smaller, x \in S }

Range(f) == { f[i] : i \in DOMAIN f }

\* all sequences over S of length 0..n
SeqsUpTo(S, n) == UNION { [1..k -> S] : k \in 0..n }

Head_n(q, n) == IF Len(q) <= n THEN q ELSE SubSeq(q, 1, n)

----------------------------------------------------------------------------
(* Text values and normalizar (app.py 15-20) *)

Str(chars) == [kind |-> "str", chars |-> chars]

NaNText == [kind |-> "nan", chars |-> << >>]

NoneText == [kind |-> "none", chars |-> << >>]

\* The characters of the model, by Unicode name:
\*   "a" U+0061, "A" U+0041, "SP" U+0020, "a_acute" U+00E1, "A_acute" U+00C1,
\*   "COMB_ACUTE" U+0301 (combining), "ACUTE" U+00B4 (spacing acute accent,
\*   compatibility decomposition <compat> 0020 0301), "MOD_A" U+1D2C
\*   (modifier letter capital A, compatibility decomposition <super> 0041).
Alphabet == {"a", "A", "SP", "a_acute", "A_acute", "COMB_ACUTE", "ACUTE", "MOD_A"}

\* str.isspace() of one character
IsSpace(c) == c = "SP"

\* str.lower() of one character (U+1D2C and U+00B4 have no lower-case mapping)
LowerChar(c) ==
    CASE c = "A" -> "a"
      [] c = "A_acute" -> "a_acute"
      [] OTHER -> c

\* unicodedata.normalize("NFKD", c) of one character
NFKDChar(c) ==
    CASE c = "a_acute" -> << "a", "COMB_ACUTE" >>
      [] c = "A_acute" -> << "A", "COMB_ACUTE" >>
      [] c = "ACUTE" -> << "SP", "COMB_ACUTE" >>
      [] c = "MOD_A" -> << "A" >>
      [] OTHER -> << c >>

\* unicodedata.combining(c) # 0
IsCombining(c) == c = "COMB_ACUTE"

RECURSIVE LStrip(_)
LStrip(q) == IF q # << >> /\ IsSpace(Head(q)) THEN LStrip(Tail(q)) ELSE q

RECURSIVE RStrip(_)
RStrip(q) ==
    IF q # << >> /\ IsSpace(q[Len(q)]) THEN RStrip(SubSeq(q, 1, Len(q) - 1)) ELSE q

\* s.strip()
Strip(q) == RStrip(LStrip(q))

\* s.lower()
Lower(q) == [i \in 1..Len(q) |-> LowerChar(q[i])]

RECURSIVE NFKD(_)
\* unicodedata.normalize("NFKD", s)
NFKD(q) == IF q = << >> THEN << >> ELSE NFKDChar(Head(q)) \o NFKD(Tail(q))

NotCombining(c) == ~IsCombining(c)

\* "".join(c for c in ... if not unicodedata.combining(c))
DropCombining(q) == SelectSeq(q, NotCombining)

normalizar(s) ==
    IF s.kind = "str" THEN Str(DropCombining(NFKD(Lower(Strip(s.chars))))) ELSE s

----------------------------------------------------------------------------
(* Values the variables hold while the part of the program they belong to  *)
(* is not running.                                                         *)

NoRead == outcome = << >> /\ path = 0 /\ tried = << >>

NoNorm == arg = NoneText /\ results = << >>

NoSel == [modo |-> "none", cancion_sel |-> NoneText, top_id |-> 0, n_pal |-> 0]

NoRow == [idx |-> NaN]

NoView ==
    /\ sel = NoSel
    /\ fila = NoRow
    /\ palabras = << >>
    /\ topic_values = << >>
    /\ canciones_top = << >>
    /\ df_topic_year = << >>

NoLoad ==
    /\ raw = << >>
    /\ topic_words = << >>
    /\ topicos_canciones = << >>
    /\ canciones = << >>
    /\ topic_name_map = << >>

----------------------------------------------------------------------------
(* normalizar applied, and applied again to its own result *)

MaxLen == 3

NormInputs == { Str(q) : q \in SeqsUpTo(Alphabet, MaxLen) } \cup { NaNText }

InitNorm ==
    /\ pc = "normalizar"
    /\ err = NoError
    /\ ran = << >>
    /\ arg \in NormInputs
    /\ results = << >>
    /\ NoRead /\ NoLoad /\ NoView

\* normalizar(arg)
ApplyNormalizar ==
    /\ pc = "normalizar"
    /\ results = << >>
    /\ results' = << normalizar(arg) >>
    /\ ran' = Append(ran, "normalizar")
    /\ UNCHANGED << pc, err, arg, readVars, loadVars, viewVars >>

\* normalizar(normalizar(arg))
ReapplyNormalizar ==
    /\ pc = "normalizar"
    /\ Len(results) = 1
    /\ results' = Append(results, normalizar(results[1]))
    /\ ran' = Append(ran, "normalizar")
    /\ UNCHANGED << pc, err, arg, readVars, loadVars, viewVars >>

NextNorm == ApplyNormalizar \/ ReapplyNormalizar

SpecNorm == InitNorm /\ [][NextNorm]_vars

\* C4: normalizar is idempotent: applying it to its own result changes nothing.
\* (Stated as the claim states it; the code violates it.)
C4_NormalizarIdempotent == Len(results) = 2 => results[2] = results[1]

----------------------------------------------------------------------------
(* leer_csv_seguro (app.py 22-30) and the read phase of load_data (34-36) *)

CsvFiles == << "shakira_lda_topic_words.csv", "shak_topicos_canciones.csv" >>

Encodings == << "utf-8", "latin-1", "cp1252" >>

\* What pd.read_csv(path, encoding=e) can do.  Latin-1 maps every byte, so it
\* cannot fail with a decode error; it can fail like any read (ParserError).
ReadOutcomes(e) ==
    IF e = "latin-1" THEN {"ok", "OtherError"}
    ELSE {"ok", "UnicodeDecodeError", "OtherError"}

CsvOutcomes == { o \in [Range(Encodings) -> {"ok", "UnicodeDecodeError", "OtherError"}] :
                    \A e \in Range(Encodings) : o[e] \in ReadOutcomes(e) }

\* the frame pd.read_csv returns for file f decoded with encoding e
Decoded(f, e) == [file |-> f, encoding |-> e]

Unread == [file |-> "none", encoding |-> "none"]

InitRead ==
    /\ pc = "try"
    /\ err = NoError
    /\ ran = << >>
    /\ outcome \in [csv : [1..Len(CsvFiles) -> CsvOutcomes], xlsx : {"ok", "error"}]
    /\ path = 1
    /\ tried = [f \in 1..Len(CsvFiles) |-> << >>]
    /\ raw = [f \in 1..Len(CsvFiles) |-> Unread]
    /\ topic_words = << >> /\ topicos_canciones = << >> /\ canciones = << >>
    /\ topic_name_map = << >>
    /\ NoNorm /\ NoView

\* one pd.read_csv(path, encoding=e) inside leer_csv_seguro: on success the
\* function returns and load_data goes on to the next file; on failure control
\* goes where Python takes the exception from the place `at`.
Attempt(e, onDecodeError, onOtherError) ==
    LET o == outcome.csv[path][e] IN
    /\ tried' = [tried EXCEPT ![path] = Append(@, e)]
    /\ ran' = Append(ran, e)
    /\ IF o = "ok"
       THEN /\ raw' = [raw EXCEPT ![path] = Decoded(CsvFiles[path], e)]
            /\ err' = NoError
            /\ IF path < Len(CsvFiles)
               THEN path' = path + 1 /\ pc' = "try"
               ELSE path' = path /\ pc' = "read_excel"
       ELSE /\ raw' = raw
            /\ path' = path
            /\ pc' = IF o = "UnicodeDecodeError" THEN onDecodeError ELSE onOtherError
            /\ err' = IF (IF o = "UnicodeDecodeError" THEN onDecodeError ELSE onOtherError)
                         = "raised"
                      THEN Error(o, e, {}) ELSE NoError
    /\ UNCHANGED << outcome, normVars, topic_words, topicos_canciones, canciones,
                    topic_name_map, viewVars >>

\* line 25: the try body.  A UnicodeDecodeError is taken by the first except
\* clause, any other exception by the second.
TryUtf8 ==
    /\ pc = "try"
    /\ Attempt("utf-8", "except UnicodeDecodeError", "except Exception")

\* line 27: the handler of `except UnicodeDecodeError`.  An exception raised
\* inside a handler is not taken by the sibling `except Exception` clause of
\* the same try statement: it leaves leer_csv_seguro.
ExceptUnicodeDecodeError ==
    /\ pc = "except UnicodeDecodeError"
    /\ Attempt("latin-1", "raised", "raised")

\* line 30: the handler of `except Exception`.
ExceptException ==
    /\ pc = "except Exception"
    /\ Attempt("cp1252", "raised", "raised")

\* line 36: pd.read_excel("shak.xlsx")
ReadExcel ==
    /\ pc = "read_excel"
    /\ ran' = Append(ran, "read_excel")
    /\ IF outcome.xlsx = "ok"
       THEN pc' = "read_done" /\ err' = NoError
       ELSE pc' = "raised" /\ err' = Error("ExcelError", "read_excel", {})
    /\ UNCHANGED << readVars, normVars, loadVars, viewVars >>

NextRead == TryUtf8 \/ ExceptUnicodeDecodeError \/ ExceptException \/ ReadExcel

SpecRead == InitRead /\ [][NextRead]_vars

\* leer_csv_seguro(CsvFiles[f]) has finished, by returning or by raising
Finished(f) == path > f \/ pc \in {"read_excel", "read_done"} \/ (path = f /\ pc = "raised")

AllFail(f) == \A e \in Range(Encodings) : outcome.csv[f][e] # "ok"

IsPrefix(p, q) == Len(p) <= Len(q) /\ \A i \in 1..Len(p) : p[i] = q[i]

\* C1: the encodings are tried in the order utf-8, latin-1, cp1252 and the first
\* success is returned; the read raises only if all three fail; after a utf-8
\* decode error and a latin-1 failure the cp1252 attempt is still made.
\* (Stated as the claim states it; the code violates it.)
C1_CascadeTriesAllThree ==
    \A f \in 1..Len(CsvFiles) :
        Finished(f) =>
            /\ IsPrefix(tried[f], Encodings)
            /\ (raw[f] = Unread => AllFail(f))
            /\ (raw[f] # Unread =>
                    \E k \in 1..Len(Encodings) :
                        /\ raw[f] = Decoded(CsvFiles[f], Encodings[k])
                        /\ outcome.csv[f][Encodings[k]] = "ok"
                        /\ \A j \in 1..(k - 1) : outcome.csv[f][Encodings[j]] # "ok")
            /\ (outcome.csv[f]["utf-8"] = "UnicodeDecodeError"
                    /\ outcome.csv[f]["latin-1"] # "ok"
                => "cp1252" \in Range(tried[f]))

----------------------------------------------------------------------------
(* load_data after the reads: schema check (38-49), types (51-61),         *)
(* normalised keys (63-65) and topic_name_map (67-74)                      *)

req_tw == {"topic", "word", "weight", "rank"}

req_tc == {"song", "year", "dominant_topic", "nombre_topic", "dominant_prob",
           "Topic_1", "Topic_2", "Topic_3", "Topic_4", "Topic_5"}

req_shak == {"song", "year", "lyrics"}

Req(d) == CASE d = 1 -> req_tw [] d = 2 -> req_tc [] d = 3 -> req_shak

\* f"Topic_{i}"
TopicCol(i) ==
    CASE i = 1 -> "Topic_1" [] i = 2 -> "Topic_2" [] i = 3 -> "Topic_3"
      [] i = 4 -> "Topic_4" [] i = 5 -> "Topic_5" [] i = 0 -> "Topic_0"
      [] i = 6 -> "Topic_6" [] OTHER -> "Topic_other"

\* range(1, 6)
TopicSlots == 1..5

Frame(columns, rows) == [columns |-> columns, rows |-> rows]

Column(frame, col) == [i \in 1..Len(frame.rows) |-> frame.rows[i][col]]

\* pd.to_numeric(x, errors="coerce") of one cell
ToNumericCoerce(c) == IF c.kind = "num" THEN c ELSE NaN

\* .astype(int) of one cell that can be cast: truncation
IntOf(c) == Num(c.val)

\* .astype(int) raises on a cell that is NaN or not a numeral
IntCastRaises(c) == c.kind # "num"

\* .astype("Int64") of a float cell: NaN becomes <NA>
Int64Of(c) == c

\* .astype("Int64") raises on a non-integer float ("cannot safely cast")
Int64CastRaises(c) == c.kind = "num" /\ ~c.whole

\* the conversions of lines 52-61, by the column they are applied to:
\*   topic                   .astype(int)
\*   weight, rank, Topic_i   pd.to_numeric(errors="coerce")
\*   year                    pd.to_numeric(errors="coerce").astype("Int64")
\*   dominant_topic          pd.to_numeric(errors="coerce").astype(int)
Converted(col, c) ==
    CASE col = "topic" -> IntOf(c)
      [] col = "year" -> Int64Of(ToNumericCoerce(c))
      [] col = "dominant_topic" -> IntOf(ToNumericCoerce(c))
      [] OTHER -> ToNumericCoerce(c)

\* whether the conversion of the column raises on the cell
ConversionRaises(col, c) ==
    CASE col = "topic" -> IntCastRaises(c)
      [] col = "year" -> Int64CastRaises(ToNumericCoerce(c))
      [] col = "dominant_topic" -> IntCastRaises(ToNumericCoerce(c))
      [] OTHER -> FALSE

\* df[col] = <conversion>(df[col]) for each col of cols, when nothing raises
ConvertColumns(frame, cols) ==
    Frame(frame.columns,
          [i \in 1..Len(frame.rows) |->
              [c \in DOMAIN frame.rows[i] |->
                  IF c \in cols THEN Converted(c, frame.rows[i][c]) ELSE frame.rows[i][c]]])

\* the conversion of column col raises on some cell
ColumnRaises(frame, col) ==
    \E i \in 1..Len(frame.rows) : ConversionRaises(col, frame.rows[i][col])

\* line 52
TopicCastRaises(frame) == ColumnRaises(frame, "topic")

\* lines 52-54 when nothing raises
CoerceTopicWords(frame) == ConvertColumns(frame, {"topic", "weight", "rank"})

\* lines 56-59 when nothing raises
CoerceTopicosCanciones(frame) ==
    ConvertColumns(frame, {"year", "dominant_topic"} \cup { TopicCol(i) : i \in TopicSlots })

\* the exception lines 56-57 raise, if any
TopicosCancionesError(frame) ==
    IF ColumnRaises(frame, "year")
    THEN Error("TypeError", "coerce_tc", {"year"})
    ELSE IF ColumnRaises(frame, "dominant_topic")
    THEN Error("ValueError", "coerce_tc", {"dominant_topic"})
    ELSE NoError

\* line 61 when nothing raises
CoerceCanciones(frame) == ConvertColumns(frame, {"year"})

\* lines 63-65: df["song_norm"] = df["song"].apply(normalizar)
WithSongNorm(frame) ==
    Frame(frame.columns \cup {"song_norm"},
          [i \in 1..Len(frame.rows) |->
              [c \in DOMAIN frame.rows[i] \cup {"song_norm"} |->
                  IF c = "song_norm" THEN normalizar(frame.rows[i]["song"])
                  ELSE frame.rows[i][c]]])

\* .dropna() keeps a (dominant_topic, nombre_topic) pair with no missing value
PairComplete(row) == row["dominant_topic"].kind # "nan" /\ row["nombre_topic"].kind = "str"

Pair(row) == << row["dominant_topic"].val, row["nombre_topic"] >>

RECURSIVE DropDuplicates(_, _)
\* .drop_duplicates(): keep the first occurrence of each pair
DropDuplicates(pairs, seen) ==
    IF pairs = << >> THEN << >>
    ELSE IF Head(pairs) \in seen THEN DropDuplicates(Tail(pairs), seen)
    ELSE << Head(pairs) >> \o DropDuplicates(Tail(pairs), seen \cup {Head(pairs)})

\* .set_index("dominant_topic")["nombre_topic"].to_dict(): a later pair
\* overwrites an earlier one with the same id
ToDict(pairs) ==
    [k \in { pairs[i][1] : i \in 1..Len(pairs) } |->
        LET last == CHOOSE i \in 1..Len(pairs) :
                        /\ pairs[i][1] = k
                        /\ \A j \in (i + 1)..Len(pairs) : pairs[j][1] # k
        IN  pairs[last][2]]

\* lines 68-74
BuildTopicNameMap(frame) ==
    LET kept == SelectSeq(frame.rows, PairComplete)
        pairs == [i \in 1..Len(kept) |-> Pair(kept[i])]
    IN  ToDict(DropDuplicates(pairs, {}))

\* the columns load_data converts to numbers
CoercedCols(d) ==
    CASE d = 1 -> {"topic", "weight", "rank"}
      [] d = 2 -> {"year", "dominant_topic"} \cup { TopicCol(i) : i \in TopicSlots }
      [] d = 3 -> {"year"}

TextCols == {"song", "word", "nombre_topic", "lyrics"}

MaxMissing == 2

MaxOdd == 2

LoadRows == 1

\* a cell that is not a plain integer: 1.5, an empty cell, a non-numeric string
OddCells == { Half(1), NaN, Txt }

Positions ==
    UNION { { << d, i, c >> : i \in 1..LoadRows, c \in CoercedCols(d) } : d \in 1..3 }

\* the frame of dataset d as read: the required columns but `missing`, every
\* text cell "a", every numeric cell 1 except the cells `odd` assigns
RawFrame(d, missing, odd) ==
    Frame(Req(d) \ missing,
          [i \in 1..LoadRows |->
              [c \in (Req(d) \ missing) \cup {"idx"} |->
                  IF c = "idx" THEN Num(i - 1)
                  ELSE IF c \in TextCols THEN Str(<< "a" >>)
                  ELSE IF << d, i, c >> \in DOMAIN odd THEN odd[<< d, i, c >>]
                  ELSE Num(1)]])

NoOdd == [p \in {} |-> NaN]

\* Either some columns are absent, or all are there and some cells are odd: the
\* schema check runs before any cell is looked at.
InitLoad ==
    /\ pc = "check_tw"
    /\ err = NoError
    /\ ran = << >>
    /\ \/ \E m1 \in KSubsets(req_tw, MaxMissing), m2 \in KSubsets(req_tc, MaxMissing),
             m3 \in KSubsets(req_shak, MaxMissing) :
             raw = << RawFrame(1, m1, NoOdd), RawFrame(2, m2, NoOdd), RawFrame(3, m3, NoOdd) >>
       \/ \E P \in KSubsets(Positions, MaxOdd) : \E odd \in [P -> OddCells] :
             raw = << RawFrame(1, {}, odd), RawFrame(2, {}, odd), RawFrame(3, {}, odd) >>
    /\ topic_words = << >> /\ topicos_canciones = << >> /\ canciones = << >>
    /\ topic_name_map = << >>
    /\ NoRead /\ NoNorm /\ NoView

\* the columns req_* names that the frame lacks
MissingColumns(d, frame) == Req(d) \ frame.columns

SchemaErrorNamesNothing(d) == {}

\* the columns the ValueError's message lists: sorted(req_*)
SchemaErrorNames(d) == Req(d)

\* one `if not req.issubset(df.columns): raise ValueError(...)`
CheckSchema(d, here, next) ==
    /\ pc = here
    /\ ran' = Append(ran, here)
    /\ IF MissingColumns(d, raw[d]) = {}
       THEN pc' = next /\ err' = NoError
       ELSE pc' = "raised" /\ err' = Error("ValueError", here, SchemaErrorNames(d))
    /\ UNCHANGED << readVars, normVars, loadVars, viewVars >>

\* lines 44-45
CheckTopicWords == CheckSchema(1, "check_tw", "check_tc")

\* lines 46-47
CheckTopicosCanciones == CheckSchema(2, "check_tc", "check_shak")

\* lines 48-49
CheckCanciones == CheckSchema(3, "check_shak", "coerce_tw")

\* lines 52-54
TypesTopicWords ==
    /\ pc = "coerce_tw"
    /\ ran' = Append(ran, "coerce_tw")
    /\ IF TopicCastRaises(raw[1])
       THEN /\ pc' = "raised"
            /\ err' = Error("ValueError", "coerce_tw", {"topic"})
            /\ topic_words' = topic_words
       ELSE /\ pc' = "coerce_tc"
            /\ err' = NoError
            /\ topic_words' = CoerceTopicWords(raw[1])
    /\ UNCHANGED << readVars, normVars, raw, topicos_canciones, canciones,
                    topic_name_map, viewVars >>

\* lines 56-59
TypesTopicosCanciones ==
    /\ pc = "coerce_tc"
    /\ ran' = Append(ran, "coerce_tc")
    /\ err' = TopicosCancionesError(raw[2])
    /\ IF TopicosCancionesError(raw[2]) # NoError
       THEN pc' = "raised" /\ topicos_canciones' = topicos_canciones
       ELSE pc' = "coerce_shak" /\ topicos_canciones' = CoerceTopicosCanciones(raw[2])
    /\ UNCHANGED << readVars, normVars, raw, topic_words, canciones,
                    topic_name_map, viewVars >>

\* line 61
TypesCanciones ==
    /\ pc = "coerce_shak"
    /\ ran' = Append(ran, "coerce_shak")
    /\ IF ColumnRaises(raw[3], "year")
       THEN /\ pc' = "raised"
            /\ err' = Error("TypeError", "coerce_shak", {"year"})
            /\ canciones' = canciones
       ELSE /\ pc' = "index"
            /\ err' = NoError
            /\ canciones' = CoerceCanciones(raw[3])
    /\ UNCHANGED << readVars, normVars, raw, topic_words, topicos_canciones,
                    topic_name_map, viewVars >>

\* lines 63-76: the normalised keys, topic_name_map, return
NormalizeAndIndex ==
    /\ pc = "index"
    /\ ran' = Append(ran, "index")
    /\ canciones' = WithSongNorm(canciones)
    /\ topicos_canciones' = WithSongNorm(topicos_canciones)
    /\ topic_name_map' = BuildTopicNameMap(topicos_canciones)
    /\ pc' = "loaded"
    /\ UNCHANGED << err, readVars, normVars, raw, topic_words, viewVars >>

NextLoad ==
    \/ CheckTopicWords \/ CheckTopicosCanciones \/ CheckCanciones
    \/ TypesTopicWords \/ TypesTopicosCanciones \/ TypesCanciones
    \/ NormalizeAndIndex

SpecLoad == InitLoad /\ [][NextLoad]_vars

SchemaSteps == {"check_tw", "check_tc", "check_shak"}

Lacking == { d \in 1..3 : MissingColumns(d, raw[d]) # {} }

LoadEnded == pc \in {"raised", "loaded"}

\* C2: with every required column present, load_data completes whatever the
\* numeric columns hold: a cell that fails coercion becomes missing.
\* (Stated as the claim states it; the code violates it.)
C2_CoercionNeverAborts == (Lacking = {} /\ LoadEnded) => pc = "loaded"

\* C3 as stated: whenever a dataset lacks required columns, load ends in a schema
\* error whose message names the columns that dataset lacks.
C3_NamesEveryMissingColumn ==
    LoadEnded =>
        \A d \in Lacking :
            /\ pc = "raised" /\ err.at \in SchemaSteps
            /\ MissingColumns(d, raw[d]) \subseteq err.names

FirstLacking == CHOOSE d \in Lacking : \A e \in Lacking : d <= e

StepOf(d) == CASE d = 1 -> "check_tw" [] d = 2 -> "check_tc" [] d = 3 -> "check_shak"

\* C3 amended: when some dataset lacks required columns, load ends in a
\* ValueError raised by the check of the first such dataset (order: topic words,
\* assignments, lyrics) whose message lists all required columns of that dataset,
\* its missing ones among them; no coercion or indexing step ever runs; and when
\* every required column is present no schema error is raised.
C3_SchemaErrorOfFirstLacking ==
    /\ Lacking # {} =>
          /\ Range(ran) \subseteq SchemaSteps
          /\ topic_words = << >> /\ topicos_canciones = << >> /\ canciones = << >>
          /\ topic_name_map = << >>
          /\ pc # "loaded"
          /\ pc = "raised" =>
                /\ err.type = "ValueError"
                /\ err.at = StepOf(FirstLacking)
                /\ err.names = Req(FirstLacking)
                /\ MissingColumns(FirstLacking, raw[FirstLacking]) \subseteq err.names
    /\ Lacking = {} => err.at \notin SchemaSteps

\* reached: the assignments and the lyrics both lack columns, the topic words do
\* not, and the error of the assignments check has been raised
C3_Witness ==
    /\ Lacking = {2, 3}
    /\ pc = "raised"
    /\ err.at = "check_tc"
    /\ Cardinality(MissingColumns(2, raw[2])) = 2

----------------------------------------------------------------------------
(* Frame queries shared by the script branches *)

\* a number's place on the number line, in halves
Key(c) == 2 * c.val + (IF c.whole THEN 0 ELSE 1)

\* pandas ==: a missing or non-string value is equal to nothing
TextEq(a, b) == a.kind = "str" /\ b.kind = "str" /\ a.chars = b.chars

\* pandas == between an int column cell and an int
IntEq(c, n) == c.kind = "num" /\ c.whole /\ c.val = n

\* ascending order of one key with na_position="last"
AscBefore(x, y) == x.kind = "num" /\ (y.kind # "num" \/ Key(x) < Key(y))

\* descending order of one key with na_position="last": missing values go last
\* in either direction
DescBefore(x, y) == x.kind = "num" /\ (y.kind # "num" \/ Key(x) > Key(y))

\* equal sort keys: two missing values share one sort code
SameKey(x, y) ==
    \/ x.kind # "num" /\ y.kind # "num"
    \/ x.kind = "num" /\ y.kind = "num" /\ Key(x) = Key(y)

\* r1 sorts strictly before r2 under sort_values(by, ascending=ascending): the
\* first key that differs decides
RowBefore(by, ascending, r1, r2) ==
    \E k \in 1..Len(by) :
        /\ \A j \in 1..(k - 1) : SameKey(r1[by[j]], r2[by[j]])
        /\ IF ascending[k] THEN AscBefore(r1[by[k]], r2[by[k]])
           ELSE DescBefore(r1[by[k]], r2[by[k]])

\* x put into the sorted sequence q before the first element it precedes
InsertSorted(q, x, by, ascending) ==
    LET later == { j \in 1..Len(q) : RowBefore(by, ascending, x, q[j]) }
        at == IF later = {} THEN Len(q) + 1
              ELSE CHOOSE j \in later : \A k \in later : j <= k
    IN  SubSeq(q, 1, at - 1) \o << x >> \o SubSeq(q, at, Len(q))

\* DataFrame.sort_values(by, ascending=ascending) on a short frame: a stable
\* sort of the rows
SortValues(q, by, ascending) ==
    LET sorted[k \in 0..Len(q)] ==
            IF k = 0 THEN << >> ELSE InsertSorted(sorted[k - 1], q[k], by, ascending)
    IN  sorted[Len(q)]

KeywordsAscendingTrue == << TRUE >>

\* ascending=False of lines 107 and 162
KeywordsAscending == << FALSE >>

\* topic_words[topic_words["topic"] == top_id].sort_values("weight",
\*     ascending=False).head(n)[["word","weight"]]
Keywords(frame, top_id, n) ==
    LET OfTopic(r) == IntEq(r["topic"], top_id)
        hits == SelectSeq(frame.rows, OfTopic)
        top == Head_n(SortValues(hits, << "weight" >>, KeywordsAscending), n)
    IN  [i \in 1..Len(top) |->
            [idx |-> top[i]["idx"], word |-> top[i]["word"], weight |-> top[i]["weight"]]]

----------------------------------------------------------------------------
(* The script after load_data: one run per interaction with the sidebar *)

\* how a run of the script body ends: it has rendered, stopped in st.stop(), or
\* ended in an uncaught exception
RunEnded == {"rendered", "stopped", "crashed"}

\* The user touches a widget: Streamlit runs the script again from the top.
\* load_data() (st.cache_data) is answered from the cache, so the run is back at
\* line 78 with the loaded frames and nothing rendered.
Rerun ==
    /\ pc \in RunEnded
    /\ pc' = "loaded"
    /\ err' = NoError
    /\ ran' = << "index" >>
    /\ sel' = NoSel
    /\ fila' = NoRow
    /\ palabras' = << >>
    /\ topic_values' = << >>
    /\ canciones_top' = << >>
    /\ df_topic_year' = << >>
    /\ UNCHANGED << readVars, normVars, loadVars >>

\* st.selectbox returns one of the options, None when there is none
SelectboxValues(options) == IF options = << >> THEN { NoneText } ELSE Range(options)

LastRow(rows) == rows[Len(rows)]

\* .iloc[0]
FirstRow(rows) == rows[1]

Digit(i) ==
    CASE i = 1 -> "1" [] i = 2 -> "2" [] i = 3 -> "3" [] i = 4 -> "4" [] i = 5 -> "5"
      [] i = 6 -> "6" [] i = 7 -> "7" [] i = 8 -> "8" [] i = 9 -> "9" [] OTHER -> "0"

\* f"Topic {i}"
SyntheticLabel(i) == Str(<< "Topic ", Digit(i) >>)

\* topic_name_map.get(i, f"Topic {i}")
DisplayName(map, i) == IF i \in DOMAIN map THEN map[i] ELSE SyntheticLabel(i)

\* line 133: the dict comprehension; a key met again overwrites its value
TopicValues(row, map) ==
    ToDict([i \in TopicSlots |-> << DisplayName(map, i), row[TopicCol(i)] >>])

\* head(12) of line 108
SongKeywordLimit == 12

\* lines 89-149
PorCancion ==
    /\ pc = "loaded"
    /\ \E cancion_sel \in SelectboxValues(Column(topicos_canciones, "song")) :
          LET cancion_norm == normalizar(cancion_sel)
              Match(r) == TextEq(r["song_norm"], cancion_norm)
              found == SelectSeq(topicos_canciones.rows, Match)
              letra_row == SelectSeq(canciones.rows, Match)
          IN  /\ sel' = [modo |-> "Por Cancion", cancion_sel |-> cancion_sel,
                         top_id |-> 0, n_pal |-> 0]
              /\ \/ /\ found = << >>                      \* lines 94-96
                    /\ pc' = "stopped"
                    /\ ran' = << "index", "lookup", "st.error", "st.stop" >>
                    /\ fila' = NoRow
                    /\ palabras' = << >>
                    /\ topic_values' = << >>
                 \/ /\ found # << >>                      \* lines 97-149
                    /\ pc' = "rendered"
                    /\ fila' = FirstRow(found)
                    /\ palabras' = Keywords(topic_words, FirstRow(found)["dominant_topic"].val,
                                            SongKeywordLimit)
                    /\ topic_values' = TopicValues(FirstRow(found), topic_name_map)
                    /\ ran' = << "index", "lookup", "header", "palabras",
                                 IF letra_row = << >> THEN "st.warning" ELSE "lyrics",
                                 "topic_values", "bar chart" >>
    /\ err' = NoError
    /\ canciones_top' = << >>
    /\ df_topic_year' = << >>
    /\ UNCHANGED << readVars, normVars, loadVars >>

MaxSongs == 2

\* "a", " A-acute" and "A" share the key "a"; "aa" does not; a missing title
SongTitles == { Str(<< "a" >>), Str(<< "SP", "A_acute" >>), Str(<< "A" >>),
                Str(<< "a", "a" >>), NaNText }

TopicNames == { Str(<< "Love" >>), SyntheticLabel(2), NaNText }

\* a typed assignment row: Topic_k of the row with index label i is 10 i + k
AssignmentRow(i, song, year, dominant_topic, nombre_topic, dominant_prob, probs) ==
    [idx |-> Num(i - 1), song |-> song, year |-> year,
     dominant_topic |-> Num(dominant_topic), nombre_topic |-> nombre_topic,
     dominant_prob |-> dominant_prob,
     Topic_1 |-> IF probs THEN Num(10 * i + 1) ELSE NaN,
     Topic_2 |-> IF probs THEN Num(10 * i + 2) ELSE NaN,
     Topic_3 |-> IF probs THEN Num(10 * i + 3) ELSE NaN,
     Topic_4 |-> IF probs THEN Num(10 * i + 4) ELSE NaN,
     Topic_5 |-> IF probs THEN Num(10 * i + 5) ELSE NaN]

WordRow(i, topic, weight) ==
    [idx |-> Num(i - 1), topic |-> Num(topic), word |-> Str(<< "w", Digit(i) >>),
     weight |-> weight, rank |-> Num(i)]

\* a small topic-word table with the topics 1, 2, 5 and 6
DefaultTopicWords ==
    Frame(req_tw, << WordRow(1, 1, Num(3)), WordRow(2, 1, NaN), WordRow(3, 2, Num(5)),
                     WordRow(4, 1, Num(7)), WordRow(5, 6, Num(2)), WordRow(6, 5, Num(4)) >>)

LyricsRow(i, song) ==
    [idx |-> Num(i - 1), song |-> song, year |-> Num(2005), lyrics |-> Str(<< "la la" >>)]

LyricsInputs ==
    { Frame(req_shak, << >>), Frame(req_shak, << LyricsRow(1, Str(<< "a" >>)) >>) }

SongInputs ==
    { Frame(req_tc,
            [i \in 1..Len(q) |->
                AssignmentRow(i, q[i][1], Num(2005), q[i][2], q[i][3], Num(62), TRUE)]) :
        q \in SeqsUpTo(SongTitles \X {1, 2} \X TopicNames, MaxSongs) }

\* load_data has converted the types; the keys and the name map are built next
InitSong ==
    /\ pc = "index"
    /\ err = NoError
    /\ ran = << >>
    /\ raw = << >>
    /\ topic_words = DefaultTopicWords
    /\ topicos_canciones \in SongInputs
    /\ canciones \in LyricsInputs
    /\ topic_name_map = << >>
    /\ NoRead /\ NoNorm /\ NoView

NextSong == NormalizeAndIndex \/ PorCancion \/ Rerun

SpecSong == InitSong /\ [][NextSong]_vars

InPorCancion == sel.modo = "Por Cancion"

\* C6: the distribution mapping of the resolved row has, for every slot i in
\* 1..5, an entry keyed by the display name of topic i whose value is the row's
\* Topic_i, and so exactly five entries.
\* (Stated as the claim states it; the code violates it.)
C6_FiveEntries ==
    (InPorCancion /\ pc = "rendered") =>
        /\ Cardinality(DOMAIN topic_values) = 5
        /\ \A i \in TopicSlots :
              /\ DisplayName(topic_name_map, i) \in DOMAIN topic_values
              /\ topic_values[DisplayName(topic_name_map, i)] = fila[TopicCol(i)]

\* the rows whose normalised title equals the normalised selected title
Matches ==
    { i \in 1..Len(topicos_canciones.rows) :
        TextEq(normalizar(topicos_canciones.rows[i]["song"]), normalizar(sel.cancion_sel)) }

\* C8: the lookup resolves to the first row, in dataset order, whose normalised
\* key equals the normalised title (a missing title or key equals nothing); with
\* no such row the run shows an error and stops: no exception, no row, and no
\* later query evaluated.
C8_FirstMatchOrNotFound ==
    InPorCancion =>
        IF Matches = {}
        THEN /\ pc = "stopped"
             /\ err = NoError
             /\ fila = NoRow
             /\ ran = << "index", "lookup", "st.error", "st.stop" >>
             /\ palabras = << >> /\ topic_values = << >>
        ELSE /\ pc = "rendered"
             /\ err = NoError
             /\ \E i \in Matches :
                   /\ \A j \in Matches : i <= j
                   /\ fila = topicos_canciones.rows[i]

\* reached: two rows with different titles share a normalised key, the second
\* one's title is selected, and the first row is the one resolved
C8_Witness ==
    /\ InPorCancion
    /\ Cardinality(Matches) = 2
    /\ sel.cancion_sel = topicos_canciones.rows[2]["song"]
    /\ topicos_canciones.rows[1]["song"] # topicos_canciones.rows[2]["song"]
    /\ fila = topicos_canciones.rows[1]

----------------------------------------------------------------------------
(* "Por Topico" (app.py 154-194) *)

\* st.sidebar.slider("...", 5, 30, 15, 1)
SliderMin == 5

SliderMax == 30

\* the slider positions the model tries: its two ends
SliderValues == { SliderMin, SliderMax }

RECURSIVE SortedSeq(_)
\* sorted(S) of a set of integers
SortedSeq(S) ==
    IF S = {} THEN << >>
    ELSE LET m == CHOOSE x \in S : \A y \in S : x <= y
         IN  << m >> \o SortedSeq(S \ {m})

\* topic_words["topic"].unique()
TopicIds(frame) == { frame.rows[i]["topic"].val : i \in 1..Len(frame.rows) }

SongsAscendingBoth == << TRUE, TRUE >>

\* ascending=[True, False] of line 179
SongsAscending == << TRUE, FALSE >>

\* lines 178-180
SongsDominatedBy(frame, top_id) ==
    LET Dominated(r) == IntEq(r["dominant_topic"], top_id)
        sorted == SortValues(SelectSeq(frame.rows, Dominated),
                             << "year", "dominant_prob" >>, SongsAscending)
    IN  [i \in 1..Len(sorted) |->
            [idx |-> sorted[i]["idx"], song |-> sorted[i]["song"],
             year |-> sorted[i]["year"], dominant_prob |-> sorted[i]["dominant_prob"]]]

RECURSIVE SumVals(_)
SumVals(cells) == IF cells = << >> THEN 0 ELSE Head(cells).val + SumVals(Tail(cells))

IsNumber(c) == c.kind = "num"

\* a mean as the exact fraction sum / n
Fraction(sum, n) == [kind |-> "mean", sum |-> sum, n |-> n]

NoMean == [kind |-> "nan", sum |-> 0, n |-> 0]

MeanNaNAsZero(cells) ==
    IF cells = << >> THEN NoMean ELSE Fraction(SumVals(SelectSeq(cells, IsNumber)), Len(cells))

\* Series.mean() of one group: missing values are skipped; NaN if none is left
MeanSkipNaN(cells) ==
    LET present == SelectSeq(cells, IsNumber)
    IN  IF present = << >> THEN NoMean ELSE Fraction(SumVals(present), Len(present))

\* the group keys of groupby("year", dropna=True)
GroupYears(frame) ==
    { frame.rows[i]["year"].val : i \in { j \in 1..Len(frame.rows) : IsNumber(frame.rows[j]["year"]) } }

\* lines 186-189: groupby("year", dropna=True)[col].mean().reset_index()
\*     .sort_values("year")
YearlyMean(frame, col) ==
    LET years == SortedSeq(GroupYears(frame))
    IN  [k \in 1..Len(years) |->
            LET InYear(r) == IntEq(r["year"], years[k])
                group == SelectSeq(frame.rows, InYear)
            IN  [year |-> years[k],
                 mean |-> MeanSkipNaN([i \in 1..Len(group) |-> group[i][col]])]]

\* lines 154-194
PorTopico ==
    /\ pc = "loaded"
    /\ \E top_id \in TopicIds(topic_words) \cup (IF topic_words.rows = << >> THEN {0} ELSE {}),
          n_pal \in SliderValues :
          /\ sel' = [modo |-> "Por Topico", cancion_sel |-> NoneText,
                     top_id |-> top_id, n_pal |-> n_pal]
          /\ \/ /\ topic_words.rows = << >>                \* line 156: int(None)
                /\ pc' = "crashed"
                /\ err' = Error("TypeError", "nombre", {})
                /\ ran' = << "index", "selectbox" >>
                /\ palabras' = << >>
                /\ canciones_top' = << >>
                /\ df_topic_year' = << >>
             \/ /\ topic_words.rows # << >>
                /\ TopicCol(top_id) \notin topicos_canciones.columns   \* line 186
                /\ pc' = "crashed"
                /\ err' = Error("KeyError", "df_topic_year", { TopicCol(top_id) })
                /\ ran' = << "index", "selectbox", "palabras", "canciones_top" >>
                /\ palabras' = Keywords(topic_words, top_id, n_pal)
                /\ canciones_top' = SongsDominatedBy(topicos_canciones, top_id)
                /\ df_topic_year' = << >>
             \/ /\ topic_words.rows # << >>
                /\ TopicCol(top_id) \in topicos_canciones.columns
                /\ pc' = "rendered"
                /\ err' = NoError
                /\ ran' = << "index", "selectbox", "palabras", "canciones_top", "df_topic_year" >>
                /\ palabras' = Keywords(topic_words, top_id, n_pal)
                /\ canciones_top' = SongsDominatedBy(topicos_canciones, top_id)
                /\ df_topic_year' = YearlyMean(topicos_canciones, TopicCol(top_id))
    /\ fila' = NoRow
    /\ topic_values' = << >>
    /\ UNCHANGED << readVars, normVars, loadVars >>

MaxWords == 6

MaxAssignments == 2

\* (topic, weight) of a topic-word row
WordChoices == { << 1, Num(3) >>, << 1, Num(7) >>, << 1, NaN >>, << 6, Num(2) >> }

WordInputs ==
    { Frame(req_tw, [i \in 1..Len(q) |-> WordRow(i, q[i][1], q[i][2])]) :
        q \in SeqsUpTo(WordChoices, MaxWords) }

AssignmentInputs ==
    { Frame(req_tc,
            [i \in 1..Len(q) |->
                AssignmentRow(i, Str(<< "a" >>), q[i][1], q[i][2], Str(<< "Love" >>),
                              q[i][3], q[i][4])]) :
        q \in SeqsUpTo({ Num(2005), Num(2010), NaN } \X {1, 2}
                           \X { Num(55), Num(62), NaN } \X BOOLEAN,
                       MaxAssignments) }

DefaultAssignments ==
    Frame(req_tc,
          << AssignmentRow(1, Str(<< "a" >>), Num(2005), 1, Str(<< "Love" >>), Num(62), TRUE),
             AssignmentRow(2, Str(<< "a", "a" >>), NaN, 6, Str(<< "Love" >>), NaN, FALSE) >>)

\* Either the topic-word table varies or the assignment table does; no query
\* of this branch reads both.
InitTopic ==
    /\ pc = "index"
    /\ err = NoError
    /\ ran = << >>
    /\ raw = << >>
    /\ \/ topic_words \in WordInputs /\ topicos_canciones = DefaultAssignments
       \/ topic_words = DefaultTopicWords /\ topicos_canciones \in AssignmentInputs
    /\ canciones = Frame(req_shak, << >>)
    /\ topic_name_map = << >>
    /\ NoRead /\ NoNorm /\ NoView

NextTopic == NormalizeAndIndex \/ PorTopico \/ Rerun

SpecTopic == InitTopic /\ [][NextTopic]_vars

InPorTopico == sel.modo = "Por Topico"

\* C5: selecting any topic id that occurs in the topic-word dataset, also one
\* with no Topic_k column, completes without raising (an out-of-range id
\* yields an empty result).
\* (Stated as the claim states it; the code violates it.)
C5_NoExceptionForAnyTopic ==
    (InPorTopico /\ sel.top_id \in TopicIds(topic_words)) => err = NoError

\* the keyword and song tables of the current run have been computed
TablesShown == InPorTopico /\ topic_words.rows # << >>

\* a >= b as numbers: false when either is missing
Geq(a, b) == a.kind = "num" /\ b.kind = "num" /\ Key(a) >= Key(b)

\* the topic-word rows of the selected topic
Hits == { i \in 1..Len(topic_words.rows) : IntEq(topic_words.rows[i]["topic"], sel.top_id) }

\* at most n entries, each an own row of the selected topic
KeywordsFromTopic ==
    /\ Len(palabras) <= sel.n_pal
    /\ \A i \in 1..Len(palabras) :
          \E h \in Hits :
              /\ topic_words.rows[h]["idx"] = palabras[i].idx
              /\ topic_words.rows[h]["word"] = palabras[i].word
              /\ topic_words.rows[h]["weight"] = palabras[i].weight
    /\ \A i, j \in 1..Len(palabras) : i # j => palabras[i].idx # palabras[j].idx

\* C10 as stated: at most n entries, all from rows of topic t, and every entry
\* has weight >= the weight of the next entry, missing weights included.
C10_EveryWeightGeqNext ==
    TablesShown =>
        /\ KeywordsFromTopic
        /\ \A i \in 1..(Len(palabras) - 1) : Geq(palabras[i].weight, palabras[i + 1].weight)

\* C10 amended: at most n entries, all from rows of topic t; the entries whose
\* weight is missing come after all the others, and among the entries with a
\* weight each weight is >= the next.
C10_WeightsDescendingMissingLast ==
    TablesShown =>
        /\ KeywordsFromTopic
        /\ \A i \in 1..(Len(palabras) - 1) :
              palabras[i + 1].weight.kind = "num"
                  => Geq(palabras[i].weight, palabras[i + 1].weight)

\* reached: more rows of the topic than the limit, the table cut to the limit,
\* two different weights in it and a missing weight at its end
C10_Witness ==
    /\ TablesShown
    /\ Cardinality(Hits) > sel.n_pal
    /\ Len(palabras) = sel.n_pal
    /\ Key(palabras[1].weight) > Key(palabras[2].weight)
    /\ palabras[Len(palabras)].weight = NaN

\* the assignment rows the selected topic dominates
Dominated ==
    { i \in 1..Len(topicos_canciones.rows) :
        IntEq(topicos_canciones.rows[i]["dominant_topic"], sel.top_id) }

\* exactly the dominated rows, each once
ExactlyDominated ==
    /\ Len(canciones_top) = Cardinality(Dominated)
    /\ \A i \in Dominated :
          \E k \in 1..Len(canciones_top) :
              /\ canciones_top[k].idx = topicos_canciones.rows[i]["idx"]
              /\ canciones_top[k].song = topicos_canciones.rows[i]["song"]
              /\ canciones_top[k].year = topicos_canciones.rows[i]["year"]
              /\ canciones_top[k].dominant_prob = topicos_canciones.rows[i]["dominant_prob"]

\* years ascending, the rows without a year after all rows with one
YearsAscendingNullLast ==
    \A k \in 1..(Len(canciones_top) - 1) :
        \/ canciones_top[k + 1].year.kind # "num"
        \/ /\ canciones_top[k].year.kind = "num"
           /\ Key(canciones_top[k].year) <= Key(canciones_top[k + 1].year)

\* C9 as stated: exactly the rows with dominant_topic = t, by year ascending
\* with the null years last, and for consecutive entries of equal year the first
\* has dominant_prob >= the second.
C9_EqualYearProbGeqNext ==
    TablesShown =>
        /\ ExactlyDominated
        /\ YearsAscendingNullLast
        /\ \A k \in 1..(Len(canciones_top) - 1) :
              (/\ canciones_top[k].year.kind = "num"
               /\ canciones_top[k].year = canciones_top[k + 1].year)
                  => Geq(canciones_top[k].dominant_prob, canciones_top[k + 1].dominant_prob)

\* C9 amended: exactly the rows with dominant_topic = t, by year ascending with
\* the null years last; for consecutive entries of equal year (or both without a
\* year) the first has dominant_prob >= the second whenever the second has a
\* dominant_prob: within a year the entries without one come last.
C9_EqualYearProbDescendingMissingLast ==
    TablesShown =>
        /\ ExactlyDominated
        /\ YearsAscendingNullLast
        /\ \A k \in 1..(Len(canciones_top) - 1) :
              (/\ SameKey(canciones_top[k].year, canciones_top[k + 1].year)
               /\ canciones_top[k + 1].dominant_prob.kind = "num")
                  => Geq(canciones_top[k].dominant_prob, canciones_top[k + 1].dominant_prob)

\* reached: two dominated rows of one year, the later row with the larger
\* dominant_prob, listed first
C9_Witness ==
    /\ TablesShown
    /\ Len(canciones_top) = 2
    /\ canciones_top[1].year = canciones_top[2].year
    /\ canciones_top[1].year.kind = "num"
    /\ Key(canciones_top[1].idx) > Key(canciones_top[2].idx)
    /\ Key(canciones_top[1].dominant_prob) > Key(canciones_top[2].dominant_prob)

RECURSIVE SumOfTopic(_, _)
\* the sum of column col over the rows with the indices in S
SumOfTopic(S, col) ==
    IF S = {} THEN 0
    ELSE LET i == CHOOSE x \in S : TRUE
         IN  topicos_canciones.rows[i][col].val + SumOfTopic(S \ {i}, col)

RowsOfYear(y) ==
    { i \in 1..Len(topicos_canciones.rows) : IntEq(topicos_canciones.rows[i]["year"], y) }

WithValue(S, col) == { i \in S : topicos_canciones.rows[i][col].kind = "num" }

\* C7: for t in 1..5 the yearly mean has one entry per distinct non-null year of
\* the assignment rows and no other, in ascending year order; the value for year
\* y is the mean of Topic_t over the rows of year y that have a Topic_t (no value
\* when none has one); rows without a year count nowhere.
C7_YearlyMean ==
    (InPorTopico /\ pc = "rendered") =>
        LET col == TopicCol(sel.top_id) IN
        /\ sel.top_id \in TopicSlots
        /\ { df_topic_year[k].year : k \in 1..Len(df_topic_year) } = GroupYears(topicos_canciones)
        /\ Len(df_topic_year) = Cardinality(GroupYears(topicos_canciones))
        /\ \A k \in 1..(Len(df_topic_year) - 1) :
              df_topic_year[k].year < df_topic_year[k + 1].year
        /\ \A k \in 1..Len(df_topic_year) :
              LET present == WithValue(RowsOfYear(df_topic_year[k].year), col)
              IN  IF present = {} THEN df_topic_year[k].mean = NoMean
                  ELSE /\ df_topic_year[k].mean.kind = "mean"
                       /\ df_topic_year[k].mean.n = Cardinality(present)
                       /\ df_topic_year[k].mean.sum = SumOfTopic(present, col)

\* reached: a year with two rows of which one has no Topic_t; the mean of that
\* year is taken over the one row that has a value
C7_Witness ==
    /\ InPorTopico /\ pc = "rendered"
    /\ Len(df_topic_year) = 1
    /\ Cardinality(RowsOfYear(df_topic_year[1].year)) = 2
    /\ df_topic_year[1].mean.kind = "mean"
    /\ df_topic_year[1].mean.n = 1

====
